---------------------------- MODULE Spec2Model ----------------------------
(***************************************************************************)
(* A model of bot.py: the per-session dialogue history, the parsing of the *)
(* language model's completion into a decision, and the message handler    *)
(* on_message with its suspension points.                                  *)
(*                                                                         *)
(* Texts are TLA+ strings.  A Python value held in a decision or in a turn *)
(* is a record [t, i, s]: its type, its integer value and its text.        *)
(* One action is the code a handler runs between two suspension points     *)
(* (awaits): the event loop is single-threaded, so that code is atomic.    *)
(***************************************************************************)
EXTENDS Integers, Sequences, FiniteSets, TLC

VARIABLES
    conversation_history,   \* session key -> list of turns (a defaultdict: keys appear on first use)
    inbox,                  \* the inbound messages so far, in arrival order; index = message id
    pc,                     \* message id -> where its handler stands
    completion,             \* message id -> outcome of the language-model call of its handler
    result,                 \* message id -> outcome of parsing the completion (deepseek_chat's result)
    llm_calls,              \* message id -> the message lists passed to the language model
    image_calls,            \* message id -> the calls of the image collaborator
    sent                    \* message id -> what the handler sent to the conversation, in order

vars == <<conversation_history, inbox, pc, completion, result, llm_calls,
          image_calls, sent>>

---------------------------------------------------------------------------
(* Program constants *)

MAX_HISTORY_MESSAGES == 50

DEFAULT_IMAGE_WIDTH == 1024

DEFAULT_IMAGE_HEIGHT == 1024

DISCORD_MAX_LEN == 2000

DEFAULT_IMAGE_MODEL == "flux"

SYSTEM_PROMPT == "SYSTEM_PROMPT"

---------------------------------------------------------------------------
(* Python values *)

PyInt(n) == [t |-> "int", i |-> n, s |-> ""]

PyBool(b) == [t |-> "bool", i |-> IF b THEN 1 ELSE 0, s |-> ""]

PyStr(x) == [t |-> "str", i |-> 0, s |-> x]

PyFloat(x) == [t |-> "float", i |-> 0, s |-> x]

PyNone == [t |-> "None", i |-> 0, s |-> ""]

\* isinstance(v, int): bool is a subclass of int in Python.
IsInstanceInt(v) == v.t \in {"int", "bool"}

\* The truth value of a Python value (bool(v)).
Truthy(v) ==
    CASE v.t \in {"int", "bool"} -> v.i # 0
      [] v.t = "str" -> v.s # ""
      [] v.t = "float" -> v.s \notin {"0.0", "-0.0"}
      [] OTHER -> FALSE

Min(a, b) == IF a <= b THEN a ELSE b

Max(a, b) == IF a >= b THEN a ELSE b

---------------------------------------------------------------------------
(* Strings *)

Whitespace == {" ", "\n", "\t", "\r"}

Char(s, i) == SubSeq(s, i, i)

\* Whether pat occurs in s at index i.
OccursAt(s, pat, i) == SubSeq(s, i, i + Len(pat) - 1) = pat

\* The first index >= from at which pat occurs in s, or 0.
Find(s, pat, from) ==
    LET last == Len(s) - Len(pat) + 1
    IN  IF \E i \in from..last : OccursAt(s, pat, i)
        THEN CHOOSE i \in from..last :
                 OccursAt(s, pat, i) /\ \A j \in from..(i - 1) : ~OccursAt(s, pat, j)
        ELSE 0

\* The first index >= i of s that holds no whitespace (Len(s) + 1 if none).
LStripFrom(s, i) ==
    CHOOSE k \in i..Max(i, Len(s) + 1) :
        /\ k > Len(s) \/ Char(s, k) \notin Whitespace
        /\ \A j \in i..(k - 1) : Char(s, j) \in Whitespace

\* The last index <= j of s that holds no whitespace (0 if none).
RStripTo(s, j) ==
    j - (CHOOSE d \in 0..j :
            /\ d = j \/ Char(s, j - d) \notin Whitespace
            /\ \A i \in (j - d + 1)..j : Char(s, i) \in Whitespace)

\* str.strip()
Strip(s) ==
    LET a == LStripFrom(s, 1)
        b == RStripTo(s, Len(s))
    IN  IF a > b THEN "" ELSE SubSeq(s, a, b)

\* "x in s" for two strings
Contains(s, pat) == Find(s, pat, 1) # 0

\* s * n
RECURSIVE Repeat(_, _)
Repeat(s, n) ==
    IF n = 0 THEN ""
    ELSE IF n % 2 = 1 THEN s \o Repeat(s, n - 1)
    ELSE Repeat(s \o s, n \div 2)

---------------------------------------------------------------------------
(* JSON documents and json.loads                                           *)
(*                                                                         *)
(* A document is what json.loads returns: a dict (kind "object", fields a  *)
(* function from the keys present to their values), a scalar or a list.    *)
(* json_dumps writes a document as text; json_loads reads a text back: it  *)
(* succeeds exactly on the texts of documents and raises JSONDecodeError   *)
(* on every other text.                                                    *)

Keys == {"need_image", "image_prompt", "width", "height", "reply"}

KeyOrder == <<"need_image", "image_prompt", "width", "height", "reply">>

Absent == [t |-> "absent", i |-> 0, s |-> ""]

ObjDoc(f) == [kind |-> "object", fields |-> f, val |-> PyNone, items |-> <<>>]

NoFields == [k \in {} |-> Absent]

ScalarDoc(v) == [kind |-> "scalar", fields |-> NoFields, val |-> v, items |-> <<>>]

ArrayDoc(xs) == [kind |-> "array", fields |-> NoFields, val |-> PyNone, items |-> xs]

\* The dict with the given values; a key whose value is Absent is not in it.
MkObj(ni, ip, w, h, r) ==
    LET all == [need_image |-> ni, image_prompt |-> ip, width |-> w,
                height |-> h, reply |-> r]
    IN  ObjDoc([k \in {k \in Keys : all[k] # Absent} |-> all[k]])

DumpVal(v) ==
    CASE v.t = "int" -> ToString(v.i)
      [] v.t = "bool" -> IF v.i = 1 THEN "true" ELSE "false"
      [] v.t = "str" -> "\"" \o v.s \o "\""
      [] v.t = "float" -> v.s
      [] OTHER -> "null"

RECURSIVE DumpFields(_, _, _)
DumpFields(f, n, first) ==
    IF n > Len(KeyOrder) THEN ""
    ELSE IF KeyOrder[n] \notin DOMAIN f THEN DumpFields(f, n + 1, first)
    ELSE (IF first THEN "" ELSE ", ")
         \o "\"" \o KeyOrder[n] \o "\": " \o DumpVal(f[KeyOrder[n]])
         \o DumpFields(f, n + 1, FALSE)

RECURSIVE DumpItems(_, _)
DumpItems(xs, n) ==
    IF n > Len(xs) THEN ""
    ELSE (IF n = 1 THEN "" ELSE ", ") \o DumpVal(xs[n]) \o DumpItems(xs, n + 1)

json_dumps(d) ==
    CASE d.kind = "object" -> "{" \o DumpFields(d.fields, 1, TRUE) \o "}"
      [] d.kind = "array" -> "[" \o DumpItems(d.items, 1) \o "]"
      [] OTHER -> DumpVal(d.val)

\* The values a model may give for a dimension: absent, negative, zero, below
\* 64, the limits, above 4096, and values that are no integers.
DimValues ==
    {Absent, PyInt(-5), PyInt(0), PyInt(1), PyInt(63), PyInt(64), PyInt(512),
     PyInt(4096), PyInt(4097), PyBool(TRUE), PyBool(FALSE), PyFloat("1.5"),
     PyStr("800"), PyNone}

\* A reply longer than one message of the conversation may be, with
\* whitespace at its two ends.
LONG_REPLY == " on it " \o Repeat("0123456789", 256) \o "\n"

\* Lengths of replies at and around one, two and three messages.
ChunkLengths == {1, 1999, 2000, 2001, 4000, 5000}

\* A text of period 7, so that no two chunks of it are equal.
REPLY_TEXT == Repeat("0123456", 715)

\* A reply whose text between the whitespace at its ends has n characters.
ReplyOfLength(n) == " " \o SubSeq(REPLY_TEXT, 1, n) \o "\n"

\* Well-formed objects that ask for no image, with replies of these lengths.
ChunkObjects ==
    {MkObj(PyBool(FALSE), PyStr(""), PyInt(0), PyInt(0), PyStr(ReplyOfLength(n))) :
        n \in ChunkLengths}

\* Well-formed objects: both required fields, every dimension.
FullObjects ==
    {MkObj(PyBool(TRUE), ip, w, h, PyStr("ok")) :
        ip \in {Absent, PyStr("a cat")}, w \in DimValues, h \in DimValues}

\* Objects lacking a required field, and objects with unusual field values.
OtherObjects ==
    {MkObj(Absent, Absent, Absent, Absent, Absent),
     MkObj(Absent, Absent, Absent, Absent, PyStr("hi")),
     MkObj(PyBool(TRUE), PyStr("a cat"), PyInt(512), PyInt(512), Absent),
     MkObj(PyBool(FALSE), PyStr(""), PyInt(0), PyInt(0), PyStr("ok")),
     MkObj(PyBool(FALSE), PyStr("a cat"), PyInt(0), PyInt(0), PyStr("ok")),
     MkObj(PyBool(FALSE), Absent, Absent, Absent, PyStr("")),
     MkObj(PyBool(FALSE), Absent, Absent, Absent, PyStr("  \n")),
     MkObj(PyBool(FALSE), Absent, Absent, Absent, PyNone),
     MkObj(PyInt(0), PyStr("a cat"), Absent, Absent, PyStr("ok")),
     MkObj(PyStr("false"), PyStr("a cat"), Absent, Absent, PyStr("ok")),
     MkObj(PyBool(TRUE), PyStr(""), PyInt(512), PyInt(768), PyStr("ok")),
     MkObj(PyBool(TRUE), PyInt(5), PyInt(512), PyInt(512), PyStr("ok")),
     MkObj(PyBool(TRUE), PyStr("a cat"), PyInt(1920), PyInt(1080), PyStr(LONG_REPLY))}

\* Values that are no objects.
NonObjects ==
    {ScalarDoc(PyInt(5)), ScalarDoc(PyNone), ScalarDoc(PyBool(TRUE)),
     ScalarDoc(PyFloat("1.5")), ScalarDoc(PyStr("abc")),
     ScalarDoc(PyStr("need_image reply")),
     ArrayDoc(<<PyInt(1)>>), ArrayDoc(<<PyStr("need_image"), PyStr("reply")>>)}

JsonDocs == FullObjects \cup OtherObjects \cup NonObjects \cup ChunkObjects

\* Every document with its text.
JSON_TEXTS == {[text |-> json_dumps(d), doc |-> d] : d \in JsonDocs}

\* The document whose text is s, whitespace around it aside.
LoadStripped(s) ==
    IF \E e \in JSON_TEXTS : e.text = s
    THEN [ok |-> TRUE, doc |-> (CHOOSE e \in JSON_TEXTS : e.text = s).doc]
    ELSE [ok |-> FALSE, doc |-> ScalarDoc(PyNone)]

\* json.loads(s): ok and the document, or not ok (json.JSONDecodeError).
json_loads(s) == LoadStripped(Strip(s))

---------------------------------------------------------------------------
(* The structured-response parser: deepseek_chat, lines 218-256 *)

\* A TLA+ string cannot hold a backquote: "~" stands for it in every text of
\* the model, so "~~~json" is the opening of a fenced block.
FENCE_OPEN == "~~~json"

FENCE_CLOSE == "~~~"

\* re.search of line 221 (fence, \s*, a lazy group, \s*, fence): whether it
\* matches, and group(1).  The leftmost opening fence that a closing fence
\* follows matches; the group is the text between them without the whitespace
\* at its two ends.
re_search_fence(s) ==
    LET open == Find(s, FENCE_OPEN, 1)
        from == open + Len(FENCE_OPEN)
        close == IF open = 0 THEN 0 ELSE Find(s, FENCE_CLOSE, from)
    IN  IF open = 0 \/ close = 0
        THEN [match |-> FALSE, group1 |-> ""]
        ELSE [match |-> TRUE, group1 |-> Strip(SubSeq(s, from, close - 1))]

\* The text handed to json.loads (lines 221-226).
json_str(assistant_reply) ==
    LET json_match == re_search_fence(assistant_reply)
    IN  IF json_match.match THEN json_match.group1 ELSE assistant_reply

\* "key in result" (line 231): "yes", "no", or "TypeError" when result is no container.
KeyIn(key, doc) ==
    CASE doc.kind = "object" -> IF key \in DOMAIN doc.fields THEN "yes" ELSE "no"
      [] doc.kind = "array" ->
            IF \E n \in 1..Len(doc.items) : doc.items[n] = PyStr(key) THEN "yes" ELSE "no"
      [] doc.val.t = "str" -> IF Contains(doc.val.s, key) THEN "yes" ELSE "no"
      [] OTHER -> "TypeError"

\* A faulty except branch: it keeps the text handed to json.loads in place of
\* the completion.
FallbackOfJson(assistant_reply) ==
    [need_image |-> PyBool(FALSE), image_prompt |-> PyStr(""),
     width |-> PyInt(DEFAULT_IMAGE_WIDTH), height |-> PyInt(DEFAULT_IMAGE_HEIGHT),
     reply |-> PyStr(json_str(assistant_reply))]

\* The record of the except branch (lines 250-256).
Fallback(assistant_reply) ==
    [need_image |-> PyBool(FALSE), image_prompt |-> PyStr(""),
     width |-> PyInt(DEFAULT_IMAGE_WIDTH), height |-> PyInt(DEFAULT_IMAGE_HEIGHT),
     reply |-> PyStr(assistant_reply)]

\* Lines 239-246 for one dimension: the default unless the value is there, is an
\* int and is positive; then max(64, min(4096, value)).
NormalizeDim(f, key, default) ==
    LET v == IF key \notin DOMAIN f \/ ~IsInstanceInt(f[key]) \/ f[key].i <= 0
             THEN PyInt(default) ELSE f[key]
    IN  PyInt(Max(64, Min(4096, v.i)))

\* Lines 234-246 on a dict that has the required fields.
Normalize(f) ==
    [need_image |-> f["need_image"],
     image_prompt |-> IF "image_prompt" \notin DOMAIN f THEN PyStr("") ELSE f["image_prompt"],
     width |-> NormalizeDim(f, "width", DEFAULT_IMAGE_WIDTH),
     height |-> NormalizeDim(f, "height", DEFAULT_IMAGE_HEIGHT),
     reply |-> f["reply"]]

\* Lines 219-256: exc is "" and value the decision, or exc names the exception
\* that leaves the try statement (only JSONDecodeError and ValueError are caught).
ParseReply(assistant_reply) ==
    LET loaded == json_loads(json_str(assistant_reply))
        doc == loaded.doc
        has1 == KeyIn("need_image", doc)
        has2 == KeyIn("reply", doc)
        fallback == [exc |-> "", value |-> Fallback(assistant_reply)]
        raised == [exc |-> "TypeError", value |-> Fallback("")]
    IN  IF ~loaded.ok THEN fallback
        ELSE IF has1 = "TypeError" THEN raised
        ELSE IF has1 = "no" \/ has2 = "no" THEN fallback
        ELSE IF doc.kind # "object" THEN raised
        ELSE [exc |-> "", value |-> Normalize(doc.fields)]

---------------------------------------------------------------------------
(* Text helpers of on_message *)

\* A faulty chunk_text: it yields the full chunks only.
chunk_text_full(s, n) ==
    [k \in 1..(Len(s) \div n) |-> SubSeq(s, (k - 1) * n + 1, k * n)]

\* chunk_text: s[i : i + n] for i in range(0, len(s), n)
chunk_text(s, n) ==
    [k \in 1..((Len(s) + n - 1) \div n) |->
        SubSeq(s, (k - 1) * n + 1, Min(k * n, Len(s)))]

\* The text shown in place of an empty reply (line 385), in English here.
EMPTY_REPLY == "(empty reply)"

\* A faulty line 385: the stripped reply, with no sentinel for an empty one.
ShownReplyBare(value) ==
    IF value.reply.t # "str" THEN [exc |-> "AttributeError", text |-> ""]
    ELSE [exc |-> "", text |-> Strip(value.reply.s)]

\* Line 385: result["reply"].strip() or the sentinel.  A reply that is no str
\* has no strip(): AttributeError.
ShownReply(value) ==
    IF value.reply.t # "str" THEN [exc |-> "AttributeError", text |-> ""]
    ELSE [exc |-> "",
          text |-> IF Strip(value.reply.s) = "" THEN EMPTY_REPLY
                   ELSE Strip(value.reply.s)]

\* s.replace(pat, "")
RECURSIVE RemoveAll(_, _)
RemoveAll(s, pat) ==
    LET i == Find(s, pat, 1)
    IN  IF i = 0 THEN s
        ELSE SubSeq(s, 1, i - 1) \o RemoveAll(SubSeq(s, i + Len(pat), Len(s)), pat)

StartsWith(s, pat) == Len(s) >= Len(pat) /\ SubSeq(s, 1, Len(pat)) = pat

Digits == <<"0", "1", "2", "3", "4", "5", "6", "7", "8", "9">>

IsDigit(c) == \E d \in 1..10 : Digits[d] = c

DigitValue(c) == (CHOOSE d \in 1..10 : Digits[d] = c) - 1

\* int(s) for a string of digits
RECURSIVE ParseInt(_)
ParseInt(s) ==
    IF Len(s) = 0 THEN 0
    ELSE 10 * ParseInt(SubSeq(s, 1, Len(s) - 1)) + DigitValue(Char(s, Len(s)))

\* The end of the run of non-whitespace, and of digits, that starts at i: the
\* first index >= i that holds another character (Len(s) + 1 if none).
NonSpaceEnd(s, i) ==
    CHOOSE k \in i..Max(i, Len(s) + 1) :
        /\ k > Len(s) \/ Char(s, k) \in Whitespace
        /\ \A j \in i..(k - 1) : Char(s, j) \notin Whitespace

DigitsEnd(s, i) ==
    CHOOSE k \in i..Max(i, Len(s) + 1) :
        /\ k > Len(s) \/ ~IsDigit(Char(s, k))
        /\ \A j \in i..(k - 1) : IsDigit(Char(s, j))

CREATE_PIC == "/create_pic"

\* CREATE_PIC_RE.match(content): the command word, whitespace, a run of
\* non-whitespace, whitespace, digits, whitespace, digits, whitespace, and the
\* rest of the text (at least one character).
CREATE_PIC_RE(content) ==
    LET a1 == Len(CREATE_PIC) + 1
        b1 == LStripFrom(content, a1)
        e1 == NonSpaceEnd(content, b1)
        b2 == LStripFrom(content, e1)
        e2 == DigitsEnd(content, b2)
        b3 == LStripFrom(content, e2)
        e3 == DigitsEnd(content, b3)
        b4 == LStripFrom(content, e3)
        ok == /\ StartsWith(content, CREATE_PIC)
              /\ b1 > a1 /\ e1 > b1 /\ b2 > e1 /\ e2 > b2
              /\ b3 > e2 /\ e3 > b3 /\ b4 > e3 /\ b4 <= Len(content)
    IN  IF ~ok THEN [match |-> FALSE, model |-> "", width |-> 0, height |-> 0,
                     prompt |-> ""]
        ELSE [match |-> TRUE,
              model |-> SubSeq(content, b1, e1 - 1),
              width |-> ParseInt(SubSeq(content, b2, e2 - 1)),
              height |-> ParseInt(SubSeq(content, b3, e3 - 1)),
              prompt |-> SubSeq(content, b4, Len(content))]

---------------------------------------------------------------------------
(* Inbound messages *)

\* The number of inbound messages of one run.
MaxMsgs == 3

BOT_MENTION == "<@99>"

BOT_MENTION_NICK == "<@!99>"

ROLE_MENTION == "<@&5>"

\* A direct conversation with one user, and one channel of a guild.
DM_CHANNEL == [is_dm |-> TRUE, id |-> "11", author |-> "1"]

GUILD_CHANNEL == [is_dm |-> FALSE, id |-> "7", author |-> "1"]

\* mentions: "none", "user" (client.user in message.mentions) or "role" (a role
\* of the bot in message.role_mentions).
Message(channel, author_bot, mentions, content) ==
    [channel |-> channel, author_bot |-> author_bot, mentions |-> mentions,
     content |-> content]

get_session_key(message) ==
    IF message.channel.is_dm
    THEN "dm_" \o message.channel.author
    ELSE "channel_" \o message.channel.id

SessionKeys == {get_session_key(Message(c, FALSE, "none", "")) :
                    c \in {DM_CHANNEL, GUILD_CHANNEL}}

InboundMessages ==
    {Message(DM_CHANNEL, FALSE, "none", "hello"),
     Message(DM_CHANNEL, FALSE, "none", "/clear"),
     Message(DM_CHANNEL, FALSE, "none", "/help"),
     Message(DM_CHANNEL, FALSE, "none", "/create_pic flux 1024 768 a  cat"),
     Message(DM_CHANNEL, FALSE, "none", "/create_pic flux abc 1024 a cat"),
     Message(DM_CHANNEL, FALSE, "none", "/create_pic flux 0 1024 a cat"),
     Message(DM_CHANNEL, FALSE, "none", " \n"),
     Message(GUILD_CHANNEL, TRUE, "none", "hello"),
     Message(GUILD_CHANNEL, FALSE, "none", "hello"),
     Message(GUILD_CHANNEL, FALSE, "user", "<@99>"),
     Message(GUILD_CHANNEL, FALSE, "user", "<@99> hello"),
     Message(GUILD_CHANNEL, FALSE, "role", "<@&5> /clear")}

\* Dimensions at and around the limits of line 367, as /create_pic spells them.
PicDimensions == {"0", "1", "63", "64", "4096", "4097"}

\* Manual requests: every pair of these dimensions, and texts that begin with
\* /create_pic but are not of the grammar of lines 35-38 (a dimension that is
\* not a run of digits, a part missing, no space after the command), and two
\* that are (a line break in the prompt, leading zeros).
PicMessages ==
    {Message(DM_CHANNEL, FALSE, "none",
             "/create_pic flux " \o w \o " " \o h \o " a cat") :
         w \in PicDimensions, h \in PicDimensions}
    \cup {Message(DM_CHANNEL, FALSE, "none", content) :
              content \in {"/create_pic flux abc 1024 a cat",
                           "/create_pic flux -1 1024 a cat",
                           "/create_pic flux 1.5 1024 a cat",
                           "/create_pic flux 1024 768",
                           "/create_pic",
                           "/create_picflux 64 64 a cat",
                           "/create_pic turbo 512 512 a\ncat",
                           "/create_pic\tflux  0064 0005  a cat"}}

\* Every message some specification draws.
KnownMessages == InboundMessages \cup PicMessages

\* Lines 266-313: what on_message does with a message before it looks for a
\* command: "ignore" (return), "greet" (a mention and nothing else), or
\* "handle" with the content stripped of the mentions.
Route(message) ==
    LET content == Strip(message.content)
        is_dm == message.channel.is_dm
        is_mentioned == message.mentions = "user"
        is_role_mentioned == message.mentions = "role" /\ ~is_dm
        unmentioned == Strip(RemoveAll(RemoveAll(RemoveAll(content,
                           BOT_MENTION), BOT_MENTION_NICK), ROLE_MENTION))
    IN  IF message.author_bot \/ content = "" THEN [to |-> "ignore", content |-> ""]
        ELSE IF ~is_dm /\ ~is_mentioned /\ ~is_role_mentioned
        THEN [to |-> "ignore", content |-> ""]
        ELSE IF is_mentioned \/ is_role_mentioned
        THEN IF unmentioned = "" THEN [to |-> "greet", content |-> ""]
             ELSE [to |-> "handle", content |-> unmentioned]
        ELSE [to |-> "handle", content |-> content]

\* Lines 318-382: the branch of a handled content.
Branch(content) ==
    IF content = "/clear" THEN "clear"
    ELSE IF content = "/help" THEN "help"
    ELSE IF StartsWith(content, CREATE_PIC) THEN "create_pic"
    ELSE "chat"

\* Route and CREATE_PIC_RE are functions of the message alone: their values
\* for the inbound messages, computed once.
ROUTE_OF == [message \in KnownMessages |-> Route(message)]

PIC_OF == [message \in KnownMessages |-> CREATE_PIC_RE(Route(message).content)]

---------------------------------------------------------------------------
(* Outcomes of the collaborators *)

Returned(text) == [called |-> TRUE, ok |-> TRUE, text |-> text]

Raised(class) == [called |-> TRUE, ok |-> FALSE, text |-> class]

NotCalled == [called |-> FALSE, ok |-> FALSE, text |-> ""]

Fenced(before, body, after) ==
    before \o FENCE_OPEN \o "\n" \o body \o "\n" \o FENCE_CLOSE \o after

\* What the language-model call may do for one message: fail, or return one of
\* these texts.
Completions ==
    {Raised("APIConnectionError"),
     Returned(json_dumps(MkObj(PyBool(FALSE), PyStr(""), PyInt(0), PyInt(0), PyStr("ok")))),
     Returned(Fenced("", json_dumps(MkObj(PyBool(TRUE), PyStr("a cat"), PyInt(1920),
                                          PyInt(1080), PyStr(LONG_REPLY))), "")),
     Returned("5"),
     Returned(json_dumps(MkObj(Absent, Absent, Absent, Absent, PyStr("hi")))),
     Returned(json_dumps(MkObj(PyBool(FALSE), PyStr("a cat"), PyInt(0), PyInt(0), PyStr("ok")))),
     Returned(json_dumps(MkObj(PyBool(FALSE), Absent, Absent, Absent, PyStr("  \n")))),
     Returned(json_dumps(MkObj(PyBool(TRUE), PyInt(5), PyInt(512), PyInt(512), PyStr("ok"))))}

\* ParseReply is a function of the text alone: its values for the texts a
\* completion may hold, computed once.
\* The completions that hold the replies of the lengths above, and one whose
\* reply is whitespace only.
ChunkCompletions ==
    {Returned(json_dumps(d)) : d \in ChunkObjects}
        \cup {Returned(json_dumps(MkObj(PyBool(FALSE), Absent, Absent, Absent,
                                        PyStr("  \n"))))}

CompletionTexts == {c.text : c \in Completions \cup ChunkCompletions}

PARSE_OF == [t \in CompletionTexts |-> ParseReply(t)]

\* What the image collaborator may do: return bytes with a content type
\* (ok), raise requests.HTTPError, or raise something else.
ImageOutcomes ==
    {[kind |-> "ok", detail |-> "image/png"],
     [kind |-> "HTTPError", detail |-> "500"],
     [kind |-> "Timeout", detail |-> "timed out"]}

\* The image call has not ended yet.
Pending == [kind |-> "pending", detail |-> ""]

\* Lines 166-172: the file name for a content type.
Filename(content_type) ==
    IF Contains(content_type, "png") THEN "image.png"
    ELSE IF Contains(content_type, "webp") THEN "image.webp"
    ELSE "image.jpg"

---------------------------------------------------------------------------
(* The history store *)

\* A turn is the dict {"role", "content"} of lines 199 and 259.  msg is the id
\* of the inbound message whose handler created the dict: it tells apart two
\* turns of equal role and content, as the identity of the dict objects does.
Turn(role, content, m) == [role |-> role, content |-> content, msg |-> m]

\* conversation_history[session_key] of a defaultdict(list), read without
\* creating the key.
HistoryOf(ch, session_key) ==
    IF session_key \in DOMAIN ch THEN ch[session_key] ELSE <<>>

\* The map with the list of session_key set to history (the key is created).
WithHistory(ch, session_key, history) ==
    [k \in DOMAIN ch \cup {session_key} |->
        IF k = session_key THEN history ELSE ch[k]]

\* history[-n:]
LastN(history, n) ==
    IF Len(history) <= n THEN history
    ELSE SubSeq(history, Len(history) - n + 1, Len(history))

\* A faulty truncation: it keeps the oldest turns.
LimitHistoryToOldest(history) ==
    IF Len(history) > MAX_HISTORY_MESSAGES
    THEN SubSeq(history, 1, MAX_HISTORY_MESSAGES)
    ELSE history

\* Lines 202-205: keep the most recent MAX_HISTORY_MESSAGES turns.
LimitHistory(history) ==
    IF Len(history) > MAX_HISTORY_MESSAGES
    THEN LastN(history, MAX_HISTORY_MESSAGES)
    ELSE history

\* A faulty clear_session: it empties the list of every session.
clear_every_session(ch, session_key) == [k \in DOMAIN ch |-> <<>>]

\* A faulty clear_session: it leaves the list as it is.
clear_session_kept(ch, session_key) == ch

\* clear_session: the list of a known key is emptied in place; an unknown key
\* stays unknown.
clear_session(ch, session_key) ==
    IF session_key \in DOMAIN ch
    THEN [ch EXCEPT ![session_key] = <<>>]
    ELSE ch

\* A faulty line 208: the history without the system instruction.
BuildMessagesBare(history) == history

\* Line 208: the system instruction, then the history.
BuildMessages(history) ==
    <<Turn("system", PyStr(SYSTEM_PROMPT), 0)>> \o history

\* The content stored for the assistant (line 259).
AssistantContent(assistant_reply, parsed) == parsed.value.reply

\* A faulty deepseek_chat: the failure of the call is stored as an assistant
\* turn.
CompletedStoringFailure(history, m, outcome, parsed) ==
    [history |-> Append(history, Turn("assistant", PyStr(outcome.text), m)),
     messages |-> BuildMessages(history),
     exc |-> IF ~outcome.ok THEN outcome.text ELSE parsed.exc,
     value |-> IF outcome.ok /\ parsed.exc = "" THEN parsed.value ELSE Fallback("")]

\* A faulty deepseek_chat: the assistant turn is put before the user turn it
\* answers.
CompletedAssistantFirst(history, m, outcome, parsed) ==
    IF ~outcome.ok
    THEN [history |-> history, messages |-> BuildMessages(history),
          exc |-> outcome.text, value |-> Fallback("")]
    ELSE IF parsed.exc # ""
    THEN [history |-> history, messages |-> BuildMessages(history),
          exc |-> parsed.exc, value |-> Fallback("")]
    ELSE [history |-> SubSeq(history, 1, Len(history) - 1)
                          \o <<Turn("assistant", AssistantContent(outcome.text, parsed), m),
                               history[Len(history)]>>,
          messages |-> BuildMessages(history), exc |-> "", value |-> parsed.value]

\* Lines 216-261 once the call of line 210 has ended: history is the list the
\* model was given (lines 199-205), parsed the result of lines 218-256.  exc is
\* "" when deepseek_chat returns and the class of the exception that leaves it
\* otherwise; the assistant turn is appended (line 259) only when it returns.
Completed(history, m, outcome, parsed) ==
    IF ~outcome.ok
    THEN [history |-> history, messages |-> BuildMessages(history),
          exc |-> outcome.text, value |-> Fallback("")]
    ELSE IF parsed.exc # ""
    THEN [history |-> history, messages |-> BuildMessages(history),
          exc |-> parsed.exc, value |-> Fallback("")]
    ELSE [history |-> Append(history,
                         Turn("assistant", AssistantContent(outcome.text, parsed), m)),
          messages |-> BuildMessages(history), exc |-> "", value |-> parsed.value]

\* deepseek_chat for message m: the new history of the session, the message
\* list given to the model, and the parsed result.  outcome is what the call of
\* line 210 does: it returns a text (ok) or raises.  The function has no await,
\* so it runs in one piece.
deepseek_chat(ch, session_key, user_text, m, outcome) ==
    Completed(LimitHistory(Append(HistoryOf(ch, session_key),
                                  Turn("user", PyStr(user_text), m))),
              m, outcome, PARSE_OF[outcome.text])

---------------------------------------------------------------------------
(* Sends and handler positions *)

Text(tag, body) == [kind |-> "text", tag |-> tag, body |-> body]

File(filename) == [kind |-> "file", tag |-> "image", body |-> filename]

\* The tags of the texts whose wording is fixed in the source, or begins with
\* fixed words: the body holds only what varies, and the text sent is never
\* empty.  The text of a "reply" is its body.
WORDED ==
    {"greeting", "cleared", "help", "usage", "bad_dimensions", "manual_generating",
     "manual_http_error", "manual_error", "generating", "image_http_error",
     "image_error", "deepseek_error"}

\* A handler is suspended at an await (at names it), or has nothing left to do
\* ("done": it has returned, or it waits for its last send and returns then).
At(at, i) == [at |-> at, i |-> i]

Done == At("done", 0)

\* A call of pollinations_image: its arguments, and how it ended once it has.
ImageCall(model, width, height, prompt) ==
    [model |-> model, width |-> width, height |-> height, prompt |-> prompt,
     outcome |-> Pending]

---------------------------------------------------------------------------
(* Initial states *)

\* n completed exchanges of an earlier dialogue: user turn, assistant turn, n
\* times.  Their message ids are -n .. -1, oldest first.
Dialogue(n) ==
    [j \in 1..(2 * n) |->
        Turn(IF j % 2 = 1 THEN "user" ELSE "assistant",
             PyStr(IF j % 2 = 1 THEN "earlier question" ELSE "earlier answer"),
             ((j + 1) \div 2) - n - 1)]

\* The store after construction (no session), and the store after the direct
\* conversation has had MAX_HISTORY_MESSAGES / 2 exchanges, each answered by a
\* well-formed completion, whose handlers have all returned: the history then
\* holds exactly MAX_HISTORY_MESSAGES turns.
InitialStores ==
    {<<>>} \cup
    {[k \in {get_session_key(Message(DM_CHANNEL, FALSE, "none", ""))} |->
        Dialogue(MAX_HISTORY_MESSAGES \div 2)]}

Init ==
    /\ conversation_history \in InitialStores
    /\ inbox = <<>>
    /\ pc = <<>>
    /\ completion = <<>>
    /\ result = <<>>
    /\ llm_calls = <<>>
    /\ image_calls = <<>>
    /\ sent = <<>>

---------------------------------------------------------------------------
(* on_message, from the arrival of a message to its first await that        *)
(* suspends.  The id of the message is its place in inbox.                  *)

NotRun == [exc |-> "not_run", value |-> Fallback("")]

\* A faulty intake: the image call blocks the event loop, and no message is
\* taken in while a handler waits for an image.
ArriveWhenIdle(message, position, outcome, parsed, calls, sends) ==
    /\ \A n \in DOMAIN pc : pc[n].at # "image"
    /\ Len(inbox) < MaxMsgs
    /\ inbox' = Append(inbox, message)
    /\ pc' = Append(pc, position)
    /\ completion' = Append(completion, outcome)
    /\ result' = Append(result, parsed)
    /\ llm_calls' = Append(llm_calls, calls)
    /\ image_calls' = Append(image_calls, <<>>)
    /\ sent' = Append(sent, sends)

\* What every first step records for the new message.
Arrive(message, position, outcome, parsed, calls, sends) ==
    /\ Len(inbox) < MaxMsgs
    /\ inbox' = Append(inbox, message)
    /\ pc' = Append(pc, position)
    /\ completion' = Append(completion, outcome)
    /\ result' = Append(result, parsed)
    /\ llm_calls' = Append(llm_calls, calls)
    /\ image_calls' = Append(image_calls, <<>>)
    /\ sent' = Append(sent, sends)

\* Lines 266-300: a message of a bot, an empty message, or a message that does
\* not address the bot.
Ignore(message) ==
    /\ ROUTE_OF[message].to = "ignore"
    /\ Arrive(message, Done, NotCalled, NotRun, <<>>, <<>>)
    /\ UNCHANGED conversation_history

\* Lines 310-313: a mention and nothing else.
Greet(message) ==
    /\ ROUTE_OF[message].to = "greet"
    /\ Arrive(message, Done, NotCalled, NotRun, <<>>, <<Text("greeting", "")>>)
    /\ UNCHANGED conversation_history

\* Lines 319-322: /clear
Clear(message) ==
    /\ ROUTE_OF[message].to = "handle"
    /\ Branch(ROUTE_OF[message].content) = "clear"
    /\ conversation_history' =
           clear_session(conversation_history, get_session_key(message))
    /\ Arrive(message, Done, NotCalled, NotRun, <<>>, <<Text("cleared", "")>>)

\* Lines 325-348: /help
Help(message) ==
    /\ ROUTE_OF[message].to = "handle"
    /\ Branch(ROUTE_OF[message].content) = "help"
    /\ Arrive(message, Done, NotCalled, NotRun, <<>>, <<Text("help", "")>>)
    /\ UNCHANGED conversation_history

\* A faulty line 367: it refuses what is below the 64 that its text suggests.
BadDimensionsBelow64(width, height) ==
    width < 64 \/ height < 64 \/ width > 4096 \/ height > 4096

\* Line 367: the dimensions /create_pic refuses.
BadDimensions(width, height) ==
    width <= 0 \/ height <= 0 \/ width > 4096 \/ height > 4096

\* Line 372: the announcement of a manual request.
ManualAnnouncement(r) ==
    Text("manual_generating",
         "model=" \o r.model \o ", " \o ToString(r.width) \o "x"
             \o ToString(r.height) \o ", prompt=" \o r.prompt)

\* Lines 351-372: /create_pic, to the usage text, to the refusal of the
\* dimensions, or to the announcement, whose send suspends the handler.
CreatePic(message) ==
    LET r == PIC_OF[message]
    IN  /\ ROUTE_OF[message].to = "handle"
        /\ Branch(ROUTE_OF[message].content) = "create_pic"
        /\ IF ~r.match
           THEN Arrive(message, Done, NotCalled, NotRun, <<>>, <<Text("usage", "")>>)
           ELSE IF BadDimensions(r.width, r.height)
           THEN Arrive(message, Done, NotCalled, NotRun, <<>>,
                       <<Text("bad_dimensions", "")>>)
           ELSE Arrive(message, At("announce", 0), NotCalled, NotRun, <<>>,
                       <<ManualAnnouncement(r)>>)
        /\ UNCHANGED conversation_history

\* Line 392
WantsImage(value) == Truthy(value.need_image) /\ Truthy(value.image_prompt)

\* The chunks of the reply shown for a decision (lines 385-388).
ReplyChunks(value) == chunk_text(ShownReply(value).text, DISCORD_MAX_LEN)

\* Where the handler stands once chunk i of the reply is sent: it has more to
\* do when chunks are left or an image is wanted.
AfterChunk(value, i) ==
    IF i < Len(ReplyChunks(value)) \/ WantsImage(value) THEN At("reply", i) ELSE Done

\* Line 417: the diagnostic of the outer except.
Diagnostic(class) == Text("deepseek_error", class)

\* Lines 388-389, first pass of the loop: the send of the first chunk, and no
\* send when chunk_text yields nothing.
FirstChunk(value) ==
    IF Len(ReplyChunks(value)) = 0 THEN <<>>
    ELSE <<Text("reply", ReplyChunks(value)[1])>>

\* Lines 385-389 and 416-417: what follows deepseek_chat, whose outcome is d:
\* the first chunk of the reply is sent, or the diagnostic when an exception
\* reaches the outer except.
Answer(message, outcome, d) ==
    /\ conversation_history' =
           WithHistory(conversation_history, get_session_key(message), d.history)
    /\ Arrive(message,
              IF d.exc # "" \/ ShownReply(d.value).exc # "" THEN Done
              ELSE AfterChunk(d.value, Len(FirstChunk(d.value))),
              outcome,
              [exc |-> IF outcome.ok THEN d.exc ELSE "not_run", value |-> d.value],
              <<d.messages>>,
              IF d.exc # "" THEN <<Diagnostic(d.exc)>>
              ELSE IF ShownReply(d.value).exc # ""
              THEN <<Diagnostic(ShownReply(d.value).exc)>>
              ELSE FirstChunk(d.value))

\* Lines 383-389: the default branch, from the arrival of the message through
\* deepseek_chat to the first send.
Chat(message, outcome) ==
    /\ ROUTE_OF[message].to = "handle"
    /\ Branch(ROUTE_OF[message].content) = "chat"
    /\ Answer(message, outcome,
              deepseek_chat(conversation_history, get_session_key(message),
                            ROUTE_OF[message].content, Len(inbox) + 1, outcome))

---------------------------------------------------------------------------
(* on_message, resumed *)

IsManual(m) == Branch(ROUTE_OF[inbox[m]].content) = "create_pic"

\* Lines 388-389: the send of chunk i has returned and chunk i + 1 is sent.
SendNextChunk(m) ==
    LET value == result[m].value
        i == pc[m].i
    IN  /\ pc[m].at = "reply"
        /\ i < Len(ReplyChunks(value))
        /\ sent' = [sent EXCEPT ![m] = Append(@, Text("reply", ReplyChunks(value)[i + 1]))]
        /\ pc' = [pc EXCEPT ![m] = AfterChunk(value, i + 1)]
        /\ UNCHANGED <<conversation_history, inbox, completion, result, llm_calls,
                       image_calls>>

\* Lines 397-400: the preview of the prompt in the announcement.
Preview(prompt) ==
    IF Len(prompt) > 200 THEN SubSeq(prompt, 1, 200) \o "..." ELSE prompt

\* Lines 397-400: the announcement of the default branch.  prompt[:200] of a
\* prompt that is no str (the parser lets a number through) raises TypeError,
\* which the except of lines 413-414 turns into the error text.
Announcement(value) ==
    IF value.image_prompt.t = "str"
    THEN Text("generating", ToString(value.width.i) \o "x"
              \o ToString(value.height.i) \o " " \o Preview(value.image_prompt.s))
    ELSE Text("image_error", "TypeError: '" \o value.image_prompt.t
              \o "' object is not subscriptable")

\* Lines 392-400: the last chunk is sent and an image is wanted: the
\* announcement is sent, or the error text, after which the handler returns.
AnnounceImage(m) ==
    LET value == result[m].value
    IN  /\ pc[m].at = "reply"
        /\ pc[m].i = Len(ReplyChunks(value))
        /\ WantsImage(value)
        /\ sent' = [sent EXCEPT ![m] = Append(@, Announcement(value))]
        /\ pc' = [pc EXCEPT ![m] =
                     IF value.image_prompt.t = "str" THEN At("announce", 0) ELSE Done]
        /\ UNCHANGED <<conversation_history, inbox, completion, result, llm_calls,
                       image_calls>>

\* Faulty arguments: width and height change places.
ImageArgumentsSwapped(m) ==
    IF IsManual(m)
    THEN LET r == PIC_OF[inbox[m]]
         IN  ImageCall(r.model, r.height, r.width, r.prompt)
    ELSE LET value == result[m].value
         IN  ImageCall(DEFAULT_IMAGE_MODEL, value.height.i, value.width.i,
                       value.image_prompt.s)

\* The arguments of pollinations_image: line 373 of the manual branch, lines
\* 402-407 of the default branch.
ImageArguments(m) ==
    IF IsManual(m)
    THEN LET r == PIC_OF[inbox[m]]
         IN  ImageCall(r.model, r.width, r.height, r.prompt)
    ELSE LET value == result[m].value
         IN  ImageCall(DEFAULT_IMAGE_MODEL, value.width.i, value.height.i,
                       value.image_prompt.s)

\* Lines 373 and 402: the announcement is sent; pollinations_image hands the
\* request to a worker thread (asyncio.to_thread) and the handler waits for it.
CallImage(m) ==
    /\ pc[m].at = "announce"
    /\ image_calls' = [image_calls EXCEPT ![m] = Append(@, ImageArguments(m))]
    /\ pc' = [pc EXCEPT ![m] = At("image", 0)]
    /\ UNCHANGED <<conversation_history, inbox, completion, result, llm_calls, sent>>

\* A faulty end of the image call: every failure is reported in the generic
\* form.
ImageSendGeneric(m, outcome) ==
    IF outcome.kind = "ok" THEN File(Filename(outcome.detail))
    ELSE Text(IF IsManual(m) THEN "manual_error" ELSE "image_error",
              outcome.kind \o ": " \o outcome.detail)

\* What the handler sends when the image call has ended: the file (lines
\* 374-375, 408-409), the HTTP error (377, 412) or the other error (379, 414).
ImageSend(m, outcome) ==
    IF outcome.kind = "ok" THEN File(Filename(outcome.detail))
    ELSE IF outcome.kind = "HTTPError"
    THEN Text(IF IsManual(m) THEN "manual_http_error" ELSE "image_http_error",
              outcome.detail)
    ELSE Text(IF IsManual(m) THEN "manual_error" ELSE "image_error",
              outcome.kind \o ": " \o outcome.detail)

\* The worker thread has ended and the handler goes on to its last send.
ImageReturns(m, outcome) ==
    /\ pc[m].at = "image"
    /\ image_calls' = [image_calls EXCEPT ![m][Len(image_calls[m])].outcome = outcome]
    /\ sent' = [sent EXCEPT ![m] = Append(@, ImageSend(m, outcome))]
    /\ pc' = [pc EXCEPT ![m] = Done]
    /\ UNCHANGED <<conversation_history, inbox, completion, result, llm_calls>>

---------------------------------------------------------------------------
(* The specification of the bot *)

Next ==
    \/ \E message \in InboundMessages : Ignore(message)
    \/ \E message \in InboundMessages : Greet(message)
    \/ \E message \in InboundMessages : Clear(message)
    \/ \E message \in InboundMessages : Help(message)
    \/ \E message \in InboundMessages : CreatePic(message)
    \/ \E message \in InboundMessages, outcome \in Completions : Chat(message, outcome)
    \/ \E m \in 1..Len(inbox) : SendNextChunk(m)
    \/ \E m \in 1..Len(inbox) : AnnounceImage(m)
    \/ \E m \in 1..Len(inbox) : CallImage(m)
    \/ \E m \in 1..Len(inbox), outcome \in ImageOutcomes : ImageReturns(m, outcome)

Spec == Init /\ [][Next]_vars

---------------------------------------------------------------------------
(* The manual requests on their own *)

MaxPicMsgs == 2

NextPic ==
    \/ \E message \in PicMessages : Len(inbox) < MaxPicMsgs /\ CreatePic(message)
    \/ \E m \in 1..Len(inbox) : CallImage(m)
    \/ \E m \in 1..Len(inbox), outcome \in ImageOutcomes : ImageReturns(m, outcome)

SpecPic == Init /\ [][NextPic]_vars

---------------------------------------------------------------------------
(* The replies on their own *)

MaxChunkMsgs == 2

\* Messages of the default branch, one of each session.
ChatMessages ==
    {Message(DM_CHANNEL, FALSE, "none", "hello"),
     Message(GUILD_CHANNEL, FALSE, "user", "<@99> hello")}

NextChunk ==
    \/ \E message \in ChatMessages, outcome \in ChunkCompletions :
           Len(inbox) < MaxChunkMsgs /\ Chat(message, outcome)
    \/ \E m \in 1..Len(inbox) : SendNextChunk(m)

SpecChunk == Init /\ [][NextChunk]_vars

---------------------------------------------------------------------------
(* The parser on its own: a completion is drawn, then parsed *)

\* Texts that hold no JSON document.
FreeTexts ==
    {"hello", "", "{\"need_image\": true, \"reply\": ",
     Fenced("see ", "not json", ""),
     Fenced("", "", ""),
     FENCE_OPEN \o "\n5",
     FENCE_CLOSE \o "\n5\n" \o FENCE_CLOSE}

\* The completions the parser is given: every document as it is, in a fenced
\* block with text around it, and with whitespace around it, and the free texts.
ParserInputs ==
    {json_dumps(d) : d \in JsonDocs}
        \cup {Fenced("Here: ", json_dumps(d), " done") : d \in JsonDocs}
        \cup {" " \o json_dumps(d) \o "\n" : d \in NonObjects \cup OtherObjects}
        \cup FreeTexts

InitParse ==
    /\ completion \in {<<Returned(t)>> : t \in ParserInputs}
    /\ result = <<>>
    /\ conversation_history = <<>>
    /\ inbox = <<>>
    /\ pc = <<>>
    /\ llm_calls = <<>>
    /\ image_calls = <<>>
    /\ sent = <<>>

\* Lines 218-256 on the completion drawn.
ParseCompletion ==
    /\ result = <<>>
    /\ result' = <<ParseReply(completion[1].text)>>
    /\ UNCHANGED <<conversation_history, inbox, pc, completion, llm_calls,
                   image_calls, sent>>

NextParse == ParseCompletion

SpecParse == InitParse /\ [][NextParse]_vars

---------------------------------------------------------------------------
(* Properties *)

Handled(m) == ROUTE_OF[inbox[m]].to = "handle"

IsClear(m) == Handled(m) /\ Branch(ROUTE_OF[inbox[m]].content) = "clear"

IsChat(m) == Handled(m) /\ Branch(ROUTE_OF[inbox[m]].content) = "chat"

SameSession(a, b) == get_session_key(inbox[a]) = get_session_key(inbox[b])

\* The user turn of message m, as the handler of m creates it.
UserTurn(m) == [role |-> "user", content |-> PyStr(ROUTE_OF[inbox[m]].content), msg |-> m]

\* history without its d oldest turns
DropOldest(history, d) == SubSeq(history, d + 1, Len(history))

\* The places of history that hold a turn of message m with the given role.
Places(history, role, m) ==
    {i \in DOMAIN history : history[i].role = role /\ history[i].msg = m}

\* C1: in every reachable state, the history of every session holds at most
\* MAX_HISTORY_MESSAGES (50) turns, the state right after the append of the
\* assistant turn included.
HistoryWithinLimit ==
    \A k \in DOMAIN conversation_history :
        Len(conversation_history[k]) <= MAX_HISTORY_MESSAGES

\* A step of a handler takes the history old of a session to new in an allowed
\* way: it leaves it alone, it clears it, or it drops some oldest turns and
\* appends at the end the user turn of the message m it handles, or that user
\* turn and then the assistant turn of m.  Nothing else of old is removed,
\* nothing is reordered or rewritten.
AllowedChange(old, new, m) ==
    \/ new = old
    \/ new = <<>>
    \/ \E n \in 1..2 :
          LET d == Len(old) + n - Len(new)
          IN  /\ d \in 0..Len(old)
              /\ SubSeq(new, 1, Len(new) - n) = DropOldest(old, d)
              /\ new[Len(new) - n + 1].role = "user"
              /\ new[Len(new) - n + 1].msg = m
              /\ n = 2 => /\ new[Len(new)].role = "assistant"
                          /\ new[Len(new)].msg = m

\* C2: every step changes the history of every session only by appending at
\* its end, by dropping a prefix of its oldest turns, or by clearing it.
HistoryChangesAllowed ==
    [][\A k \in SessionKeys :
          AllowedChange(HistoryOf(conversation_history, k),
                        HistoryOf(conversation_history', k), Len(inbox'))]_vars

\* C2, its case: the history of a session is full and its oldest turn is an
\* assistant turn, so a truncation has dropped the user turn before it.
HistoryTruncated ==
    \E k \in DOMAIN conversation_history :
        /\ Len(conversation_history[k]) >= MAX_HISTORY_MESSAGES
        /\ conversation_history[k][1].role = "assistant"

\* C3: no turn is lost or duplicated.  For every message of the default branch,
\* the history of its session holds at most one user turn and at most one
\* assistant turn of it; it holds the user turn unless a later /clear or the
\* eviction of the oldest turns removed it; and when the model call succeeded
\* and the user turn is still there, the assistant turn is there too.
TurnsNeitherLostNorDuplicated ==
    \A m \in DOMAIN inbox :
        IsChat(m) =>
            LET history == HistoryOf(conversation_history, get_session_key(inbox[m]))
                users == Places(history, "user", m)
                assistants == Places(history, "assistant", m)
            IN  /\ Cardinality(users) <= 1
                /\ Cardinality(assistants) <= 1
                /\ \A k \in DOMAIN conversation_history :
                      k # get_session_key(inbox[m]) =>
                          \A i \in DOMAIN conversation_history[k] :
                              conversation_history[k][i].msg # m
                /\ (/\ Len(history) < MAX_HISTORY_MESSAGES
                    /\ \A c \in (m + 1)..Len(inbox) : ~(IsClear(c) /\ SameSession(c, m)))
                       => users # {}
                /\ (completion[m].ok /\ users # {}) => assistants # {}

\* Message m is the first message of the default branch after the /clear c of
\* its session.
NextChatAfterClear(c, m) ==
    /\ c < m
    /\ IsClear(c)
    /\ IsChat(m)
    /\ SameSession(c, m)
    /\ \A x \in (c + 1)..(m - 1) : ~(IsChat(x) /\ SameSession(c, x))

\* The model was called once for m, with the system instruction and the user
\* turn of m and nothing else.
CalledWithOwnTurnOnly(m) ==
    llm_calls[m] = <<<<[role |-> "system", content |-> PyStr(SYSTEM_PROMPT), msg |-> 0],
                      UserTurn(m)>>>>

\* C4: the first model call of a session after a /clear of it is given a
\* history of exactly one turn, the user turn of the new message.
ClearLeavesNoResidue ==
    \A c \in DOMAIN inbox, m \in DOMAIN inbox :
        NextChatAfterClear(c, m) => CalledWithOwnTurnOnly(m)

\* C4, its case: a message e of the session came before the /clear and its
\* handler is still sending its reply or generating its image; the history held
\* turns before the /clear; and the next message has had its model call.
ClearedWhileInFlight ==
    \E e \in DOMAIN inbox, c \in DOMAIN inbox, m \in DOMAIN inbox :
        /\ e < c
        /\ IsChat(e)
        /\ SameSession(e, c)
        /\ pc[e].at \in {"reply", "announce", "image"}
        /\ NextChatAfterClear(c, m)
        /\ CalledWithOwnTurnOnly(m)

\* The model call of message m failed.
CallFailed(m) == completion[m].called /\ ~completion[m].ok

\* For every message whose model call failed: the model was called once, the
\* handler sent one text, the diagnostic, and nothing else, it is done, and no
\* history holds an assistant turn of the message.
FailureLeavesOneDiagnostic ==
    \A m \in DOMAIN inbox :
        CallFailed(m) =>
            /\ Len(llm_calls[m]) = 1
            /\ sent[m] = <<[kind |-> "text", tag |-> "deepseek_error",
                            body |-> completion[m].text]>>
            /\ pc[m] = Done
            /\ image_calls[m] = <<>>
            /\ \A k \in DOMAIN conversation_history :
                  Places(conversation_history[k], "assistant", m) = {}

\* The step that handles a message whose model call fails appends the user
\* turn of the message to the history of its session (oldest turns go when the
\* history was full) and leaves the other sessions alone.
FailureAddsUserTurnOnly ==
    LET m == Len(inbox')
    IN  (Len(inbox') = Len(inbox) + 1 /\ completion'[m].called /\ ~completion'[m].ok) =>
            LET session_key == get_session_key(inbox'[m])
                old == HistoryOf(conversation_history, session_key)
                new == HistoryOf(conversation_history', session_key)
            IN  /\ Len(new) \in 1..(Len(old) + 1)
                /\ new = Append(DropOldest(old, Len(old) + 1 - Len(new)),
                                [role |-> "user",
                                 content |-> PyStr(ROUTE_OF[inbox'[m]].content),
                                 msg |-> m])
                /\ \A k \in SessionKeys \ {session_key} :
                      HistoryOf(conversation_history', k) = HistoryOf(conversation_history, k)

\* C5: when the model call of a message fails, the history of its session is
\* advanced by the user turn of the message and by no assistant turn, the model
\* is not called again for the message, and one diagnostic text is sent.
ModelFailureHandled ==
    []FailureLeavesOneDiagnostic /\ [][FailureAddsUserTurnOnly]_vars

\* C5, its case: a model call failed on a session that already held turns, and
\* the user turn of the message is the newest turn of the session.
ModelCallFailed ==
    \E m \in DOMAIN inbox :
        /\ CallFailed(m)
        /\ LET history == HistoryOf(conversation_history, get_session_key(inbox[m]))
           IN  /\ Len(history) > 1
               /\ history[Len(history)] = UserTurn(m)
        /\ Len(sent[m]) = 1

\* C6: whatever the completion, the parsing step ends with a decision record
\* and never with an exception.
ParserNeverRaises ==
    \A m \in DOMAIN result : result[m].exc \in {"", "not_run"}

\* The document json.loads is given for the completion of m: the inside of the
\* fenced block when there is one, the whole text otherwise.
Loaded(m) == json_loads(json_str(completion[m].text))

\* The completion of m holds no JSON, or an object without need_image or
\* without reply.
Unusable(m) ==
    \/ ~Loaded(m).ok
    \/ /\ Loaded(m).doc.kind = "object"
       /\ ~({"need_image", "reply"} \subseteq DOMAIN Loaded(m).doc.fields)

\* The completion of m holds an object with need_image and reply.
WellFormed(m) ==
    /\ Loaded(m).ok
    /\ Loaded(m).doc.kind = "object"
    /\ {"need_image", "reply"} \subseteq DOMAIN Loaded(m).doc.fields

\* C7: a completion that is no JSON, or an object lacking need_image or reply,
\* gives exactly the fallback decision: no image, an empty prompt, 1024 by
\* 1024, and the raw completion as the reply, verbatim.
UnusableGivesFallback ==
    \A m \in DOMAIN result :
        (result[m].exc # "not_run" /\ Unusable(m)) =>
            result[m] = [exc |-> "",
                         value |-> [need_image |-> PyBool(FALSE),
                                    image_prompt |-> PyStr(""),
                                    width |-> PyInt(1024),
                                    height |-> PyInt(1024),
                                    reply |-> PyStr(completion[m].text)]]

\* C7, its case: a fenced block that holds an object without the required
\* fields was parsed, and the reply is the whole completion, not the block.
FencedUnusableParsed ==
    \E m \in DOMAIN result :
        /\ result[m].exc = ""
        /\ Unusable(m)
        /\ Loaded(m).ok
        /\ re_search_fence(completion[m].text).match
        /\ result[m].value.reply = PyStr(completion[m].text)
        /\ result[m].value.reply # PyStr(json_str(completion[m].text))

\* The dimension the decision must hold for the value of key in the object f:
\* 1024 when the value is absent, is no integer or is <= 0, and the value
\* clamped to [64, 4096] otherwise.
ExpectedDimension(f, key) ==
    IF key \notin DOMAIN f THEN 1024
    ELSE IF f[key].t # "int" THEN 1024
    ELSE IF f[key].i <= 0 THEN 1024
    ELSE Max(64, Min(4096, f[key].i))

\* C8: in every decision, width and height are integers in [64, 4096]; for a
\* well-formed object each is 1024 when the value is absent, no integer or
\* <= 0, and the value clamped to [64, 4096] otherwise, and the prompt is ""
\* when the object has no image_prompt.
DimensionsNormalized ==
    \A m \in DOMAIN result :
        result[m].exc = "" =>
            /\ result[m].value.width.t = "int"
            /\ result[m].value.height.t = "int"
            /\ result[m].value.width.i \in 64..4096
            /\ result[m].value.height.i \in 64..4096
            /\ WellFormed(m) =>
                  /\ result[m].value.width.i =
                         ExpectedDimension(Loaded(m).doc.fields, "width")
                  /\ result[m].value.height.i =
                         ExpectedDimension(Loaded(m).doc.fields, "height")
                  /\ "image_prompt" \notin DOMAIN Loaded(m).doc.fields =>
                         result[m].value.image_prompt = PyStr("")

\* C9: in every decision returned for a message, if need_image is false then
\* image_prompt is the empty string, and the image collaborator is not called
\* for the message.
NoImageMeansNoPrompt ==
    \A m \in DOMAIN inbox :
        (result[m].exc = "" /\ result[m].value.need_image = PyBool(FALSE)) =>
            /\ result[m].value.image_prompt = PyStr("")
            /\ image_calls[m] = <<>>

\* The text holds a JSON object, as it is or in a fenced block.
HoldsJsonObject(text) ==
    /\ json_loads(json_str(text)).ok
    /\ json_loads(json_str(text)).doc.kind = "object"

\* C10: every assistant turn stored for a message holds the reply of the
\* decision returned for the message, as it is, and never the structured JSON
\* payload of the completion.
AssistantTurnsHoldReplyOnly ==
    \A k \in DOMAIN conversation_history :
        \A i \in DOMAIN conversation_history[k] :
            LET turn == conversation_history[k][i]
            IN  (turn.role = "assistant" /\ turn.msg \in DOMAIN inbox) =>
                    /\ turn.content = result[turn.msg].value.reply
                    /\ ~(turn.content.t = "str" /\ HoldsJsonObject(turn.content.s))

\* What was sent holds something: a file, a worded text, or a reply that is
\* not the empty string.
NonEmptySend(send) ==
    send.kind = "file" \/ send.tag \in WORDED \/ send.body # ""

\* C11: every inbound message the bot is to respond to (one it does not ignore)
\* gets at least one send, and nothing sent is empty, on every branch.  The
\* first send of a handler is issued in the step that takes the message in, so
\* the response is there in every state that holds the message.
EveryMessageAnswered ==
    \A m \in DOMAIN inbox :
        ROUTE_OF[inbox[m]].to # "ignore" =>
            /\ Len(sent[m]) >= 1
            /\ \A i \in DOMAIN sent[m] : NonEmptySend(sent[m][i])

\* C11, its case: the model answered with a reply of whitespace only and the
\* sentinel was sent in its place; another message met a failing model call.
EmptyReplyAnswered ==
    \E m \in DOMAIN inbox, n \in DOMAIN inbox :
        /\ result[m].exc = ""
        /\ result[m].value.reply = PyStr("  \n")
        /\ sent[m] = <<[kind |-> "text", tag |-> "reply", body |-> EMPTY_REPLY]>>
        /\ completion[n].called
        /\ ~completion[n].ok
        /\ Len(sent[n]) = 1

IsHelp(m) == Handled(m) /\ Branch(ROUTE_OF[inbox[m]].content) = "help"

IsCreatePic(m) == Handled(m) /\ Branch(ROUTE_OF[inbox[m]].content) = "create_pic"

\* In every state: no message of /clear, /help or /create_pic has a call of the
\* language model.
CommandsNeverCallModel ==
    \A m \in DOMAIN inbox :
        (IsClear(m) \/ IsHelp(m) \/ IsCreatePic(m)) =>
            llm_calls[m] = <<>> /\ ~completion[m].called

\* In every step: the step that takes in a /help or a /create_pic, and every
\* later step of a handler, leaves the history of every session as it is; the
\* step that takes in a /clear leaves the history of every other session as it
\* is; none of these steps adds a call of the language model.
CommandsKeepHistories ==
    LET taken == Len(inbox') = Len(inbox) + 1
        message == inbox'[Len(inbox')]
        branch == IF ROUTE_OF[message].to = "handle"
                  THEN Branch(ROUTE_OF[message].content) ELSE ROUTE_OF[message].to
    IN  /\ ~taken => conversation_history' = conversation_history /\ llm_calls' = llm_calls
        /\ (taken /\ branch \in {"help", "create_pic"})
               => conversation_history' = conversation_history
        /\ (taken /\ branch = "clear")
               => /\ DOMAIN conversation_history' = DOMAIN conversation_history
                  /\ \A k \in DOMAIN conversation_history :
                         k # get_session_key(message) =>
                             conversation_history'[k] = conversation_history[k]
        /\ (taken /\ branch \in {"clear", "help", "create_pic"})
               => \A n \in DOMAIN llm_calls : llm_calls'[n] = llm_calls[n]

\* C12: /create_pic (accepted or rejected) and /help leave the history of every
\* session unchanged and never call the language model; /clear never calls the
\* language model and changes the history of its own session only.
CommandsTouchOwnSessionOnly ==
    []CommandsNeverCallModel /\ [][CommandsKeepHistories]_vars

\* C12, its case: the guild channel has a history, a /clear of the direct
\* conversation has emptied the turns that conversation had, and an accepted
\* /create_pic has run to its file.
CommandsRunBesideHistory ==
    \E a \in DOMAIN inbox, b \in DOMAIN inbox, c \in DOMAIN inbox :
        /\ IsChat(a) /\ ~inbox[a].channel.is_dm /\ a < b
        /\ IsClear(b) /\ inbox[b].channel.is_dm
        /\ IsCreatePic(c) /\ pc[c] = Done /\ Len(sent[c]) = 2 /\ sent[c][2].kind = "file"
        /\ HistoryOf(conversation_history, get_session_key(inbox[a])) # <<>>
        /\ get_session_key(inbox[b]) \in DOMAIN conversation_history
        /\ conversation_history[get_session_key(inbox[b])] = <<>>

\* The handler of m sent the usage text or the refusal of the dimensions.
Rejected(m) ==
    sent[m][1].kind = "text" /\ sent[m][1].tag \in {"usage", "bad_dimensions"}

\* C13: a /create_pic is rejected exactly when its text is not of the grammar,
\* or its width or height is 0 or above 4096.  A rejected request has exactly
\* one send (the usage text or the refusal), no image call, and leaves the
\* histories as they were; every other request, dimensions 1..63 included, is
\* announced and then handed to the image collaborator with the model, width,
\* height and prompt of its text.
CreatePicRejectsExactly ==
    /\ conversation_history \in InitialStores
    /\ \A m \in DOMAIN inbox :
           LET r == PIC_OF[inbox[m]]
           IN  IsCreatePic(m) =>
                 /\ Rejected(m) <=>
                        (~r.match \/ r.width = 0 \/ r.height = 0
                             \/ r.width > 4096 \/ r.height > 4096)
                 /\ Rejected(m) =>
                        /\ Len(sent[m]) = 1
                        /\ sent[m][1].tag = (IF r.match THEN "bad_dimensions" ELSE "usage")
                        /\ image_calls[m] = <<>>
                        /\ pc[m] = Done
                 /\ ~Rejected(m) =>
                        /\ r.width \in 1..4096 /\ r.height \in 1..4096
                        /\ sent[m][1].tag = "manual_generating"
                        /\ pc[m].at = "announce" <=> image_calls[m] = <<>>
                        /\ Len(image_calls[m]) <= 1
                        /\ \A i \in DOMAIN image_calls[m] :
                               /\ image_calls[m][i].model = r.model
                               /\ image_calls[m][i].width = r.width
                               /\ image_calls[m][i].height = r.height
                               /\ image_calls[m][i].prompt = r.prompt
                 /\ llm_calls[m] = <<>>
    /\ \A m \in DOMAIN inbox :
           /\ inbox[m].content \in {"/create_pic flux abc 1024 a cat",
                                     "/create_pic flux -1 1024 a cat",
                                     "/create_pic flux 1.5 1024 a cat",
                                     "/create_pic flux 1024 768", "/create_pic",
                                     "/create_picflux 64 64 a cat",
                                     "/create_pic flux 0 64 a cat",
                                     "/create_pic flux 64 4097 a cat"}
                  => Rejected(m)
           /\ inbox[m].content \in {"/create_pic flux 1 63 a cat",
                                     "/create_pic flux 4096 1 a cat",
                                     "/create_pic turbo 512 512 a\ncat",
                                     "/create_pic\tflux  0064 0005  a cat"}
                  => ~Rejected(m)

\* C13, its case: a request of 4097 by 64 was refused, and a request of 1 by 63
\* has reached the image collaborator.
SmallDimensionsDispatched ==
    \E m \in DOMAIN inbox, n \in DOMAIN inbox :
        /\ inbox[m].content = "/create_pic flux 4097 64 a cat"
        /\ sent[m] = <<[kind |-> "text", tag |-> "bad_dimensions", body |-> ""]>>
        /\ inbox[n].content = "/create_pic flux 1 63 a cat"
        /\ Len(image_calls[n]) = 1
        /\ image_calls[n][1].width = 1
        /\ image_calls[n][1].height = 63

\* The texts of the sends of m that carry the reply, in the order sent.
RepliesSent(m) ==
    LET replies == SelectSeq(sent[m], LAMBDA x : x.kind = "text" /\ x.tag = "reply")
    IN  [k \in DOMAIN replies |-> replies[k].body]

RECURSIVE Concat(_)
Concat(texts) ==
    IF texts = <<>> THEN "" ELSE texts[1] \o Concat(Tail(texts))

\* C14: the reply shown is sent as chunks, each non-empty and of at most 2000
\* characters, all but the last of exactly 2000, in order; once the handler is
\* past the reply their concatenation is the reply shown.  A reply of 5000
\* characters goes out as three chunks of 2000, 2000 and 1000.
ReplySentInChunks ==
    \A m \in DOMAIN inbox :
        (IsChat(m) /\ result[m].exc = "" /\ ShownReply(result[m].value).exc = "") =>
            LET shown == ShownReply(result[m].value).text
                chunks == RepliesSent(m)
                past == pc[m].at # "reply" \/ pc[m].i = (Len(shown) + 1999) \div 2000
            IN  /\ \A k \in DOMAIN chunks :
                       /\ chunks[k] # ""
                       /\ Len(chunks[k]) <= 2000
                       /\ k < Len(chunks) => Len(chunks[k]) = 2000
                       /\ chunks[k] =
                              SubSeq(shown, 2000 * (k - 1) + 1, Min(2000 * k, Len(shown)))
                /\ pc[m].at = "reply" => pc[m].i = Len(chunks)
                /\ past => Concat(chunks) = shown
                /\ (past /\ Len(shown) = 5000) =>
                       [k \in DOMAIN chunks |-> Len(chunks[k])] = <<2000, 2000, 1000>>

\* C14, its case: a reply of 5000 characters has gone out in three chunks, and
\* a reply of exactly 2000 characters in one.
LongReplySent ==
    \E m \in DOMAIN inbox, n \in DOMAIN inbox :
        /\ pc[m] = Done /\ result[m].exc = ""
        /\ Len(ShownReply(result[m].value).text) = 5000
        /\ Len(RepliesSent(m)) = 3
        /\ Len(RepliesSent(m)[3]) = 1000
        /\ pc[n] = Done /\ result[n].exc = ""
        /\ Len(ShownReply(result[n].value).text) = 2000
        /\ Len(RepliesSent(n)) = 1

\* C15: the call of the language model is a suspension point: the step of a
\* handler that issues the call ends there, so that handlers of other sessions
\* can take steps before the call returns; the step holds neither the outcome
\* of the call nor a send that follows it.
ModelCallYields ==
    [][\A m \in DOMAIN llm_calls' :
          (m \notin DOMAIN llm_calls /\ llm_calls'[m] # <<>>) =>
              ~completion'[m].called /\ sent'[m] = <<>>]_vars

\* on_message takes in a message, whatever its branch.
TakeIn(message) ==
    \/ Ignore(message)
    \/ Greet(message)
    \/ Clear(message)
    \/ Help(message)
    \/ CreatePic(message)
    \/ \E outcome \in Completions : Chat(message, outcome)

\* The handler of n goes on from the await it is suspended at.
Resume(n) ==
    \/ SendNextChunk(n)
    \/ AnnounceImage(n)
    \/ CallImage(n)
    \/ \E outcome \in ImageOutcomes : ImageReturns(n, outcome)

\* C16: the image call runs off the event loop.  In every state in which a
\* handler waits for an image: a message of any other session can be taken in
\* (while messages are left to come), every other handler that has not
\* returned can take its next step, and the waiting handler can resume with
\* each outcome of the call, the result or either failure.
ImageCallOffLoop ==
    \A m \in DOMAIN inbox :
        pc[m].at = "image" =>
            /\ Len(inbox) < MaxMsgs =>
                   \A message \in InboundMessages :
                       get_session_key(message) # get_session_key(inbox[m]) =>
                           ENABLED TakeIn(message)
            /\ \A n \in DOMAIN inbox \ {m} : pc[n] # Done => ENABLED Resume(n)
            /\ \A outcome \in ImageOutcomes : ENABLED ImageReturns(m, outcome)

\* C16, its case: a handler waits for an image, and the handler of a later
\* message of another session has called the language model, sent its reply
\* and its own image, and returned.
HandlerDoneDuringImageCall ==
    \E m \in DOMAIN inbox, n \in DOMAIN inbox :
        /\ pc[m].at = "image"
        /\ image_calls[m][1].outcome = Pending
        /\ m < n
        /\ ~SameSession(m, n)
        /\ IsChat(n)
        /\ pc[n] = Done
        /\ sent[n][Len(sent[n])].kind = "file"

\* The handler of m got a decision that asks for an image: need_image is true
\* and image_prompt a string that is not empty.
ImageWanted(m) ==
    /\ IsChat(m)
    /\ result[m].exc = ""
    /\ ShownReply(result[m].value).exc = ""
    /\ Truthy(result[m].value.need_image)
    /\ result[m].value.image_prompt.t = "str"
    /\ result[m].value.image_prompt.s # ""

\* C17: for a decision that asks for an image the sends are, in this order,
\* the chunks of the reply, the announcement, and the file or one error text;
\* the image collaborator is called once, with the default model and the
\* width, height and prompt of the decision, after the announcement (so after
\* the last chunk) and before the file or the error text.
ImageFollowsReply ==
    \A m \in DOMAIN inbox :
        ImageWanted(m) =>
            LET value == result[m].value
                chunks == chunk_text(ShownReply(value).text, 2000)
                n == Len(chunks)
            IN  /\ Len(sent[m]) \in 1..(n + 2)
                /\ \A k \in 1..Min(n, Len(sent[m])) :
                       sent[m][k] = [kind |-> "text", tag |-> "reply", body |-> chunks[k]]
                /\ Len(sent[m]) > n =>
                       /\ sent[m][n + 1].kind = "text"
                       /\ sent[m][n + 1].tag = "generating"
                /\ Len(sent[m]) = n + 2 =>
                       /\ sent[m][n + 2].kind = "file"
                              \/ sent[m][n + 2].tag \in {"image_http_error", "image_error"}
                       /\ Len(image_calls[m]) = 1
                       /\ image_calls[m][1].outcome # Pending
                /\ Len(image_calls[m]) <= 1
                /\ \A i \in DOMAIN image_calls[m] :
                       /\ Len(sent[m]) >= n + 1
                       /\ image_calls[m][i].outcome = Pending => Len(sent[m]) = n + 1
                       /\ image_calls[m][i].model = DEFAULT_IMAGE_MODEL
                       /\ image_calls[m][i].width = value.width.i
                       /\ image_calls[m][i].height = value.height.i
                       /\ image_calls[m][i].prompt = value.image_prompt.s
                /\ pc[m] = Done <=> Len(sent[m]) = n + 2

\* C17, its case: a reply of two chunks, the announcement and the file have
\* gone out, after one image call of 1920 by 1080 for "a cat".
ImageSentAfterLongReply ==
    \E m \in DOMAIN inbox :
        /\ ImageWanted(m)
        /\ pc[m] = Done
        /\ Len(sent[m]) = 4
        /\ sent[m][1].tag = "reply" /\ Len(sent[m][1].body) = 2000
        /\ sent[m][2].tag = "reply"
        /\ sent[m][3].tag = "generating"
        /\ sent[m][4].kind = "file"
        /\ Len(image_calls[m]) = 1
        /\ image_calls[m][1].model = DEFAULT_IMAGE_MODEL
        /\ image_calls[m][1].width = 1920
        /\ image_calls[m][1].height = 1080
        /\ image_calls[m][1].prompt = "a cat"

\* The image call of m has ended in a failure.
ImageFailed(m) ==
    /\ image_calls[m] # <<>>
    /\ image_calls[m][1].outcome.kind \notin {"pending", "ok"}

ERROR_TAGS == {"manual_http_error", "manual_error", "image_http_error", "image_error"}

\* In every state: after a failed image call there is that one call, no file,
\* and one error text, the last send of the handler, which has returned; the
\* text is of the HTTP form with the status code for an HTTP error and of the
\* generic form with the class and the message of the error otherwise.
FailureSendsOneError ==
    \A m \in DOMAIN inbox :
        ImageFailed(m) =>
            LET outcome == image_calls[m][1].outcome
                last == sent[m][Len(sent[m])]
            IN  /\ Len(image_calls[m]) = 1
                /\ pc[m] = Done
                /\ \A k \in DOMAIN sent[m] : sent[m][k].kind # "file"
                /\ Cardinality({k \in DOMAIN sent[m] : sent[m][k].tag \in ERROR_TAGS}) = 1
                /\ last.kind = "text"
                /\ outcome.kind = "HTTPError" =>
                       /\ last.tag = (IF IsCreatePic(m) THEN "manual_http_error"
                                      ELSE "image_http_error")
                       /\ last.body = outcome.detail
                /\ outcome.kind # "HTTPError" =>
                       /\ last.tag = (IF IsCreatePic(m) THEN "manual_error"
                                      ELSE "image_error")
                       /\ last.body = outcome.kind \o ": " \o outcome.detail

\* In every step: the call of the image collaborator and its end leave the
\* histories as they are.
ImageCallKeepsHistories ==
    (\E m \in DOMAIN image_calls : image_calls'[m] # image_calls[m])
        => conversation_history' = conversation_history

\* C18: when the image collaborator fails, by an HTTP error or otherwise, it is
\* not called again for the message, no file is sent, exactly one error text
\* is sent (HTTP form with the status code, generic form with class and
\* message), and the history of the session is as before the image call, on
\* the model-driven path and on the manual path.
ImageFailureHandled ==
    []FailureSendsOneError /\ [][ImageCallKeepsHistories]_vars

\* C18, its case: a manual request met an HTTP error and a model-driven image
\* a failure of another kind.
BothPathsFailed ==
    \E m \in DOMAIN inbox, n \in DOMAIN inbox :
        /\ IsCreatePic(m) /\ ImageFailed(m)
        /\ image_calls[m][1].outcome.kind = "HTTPError"
        /\ sent[m][Len(sent[m])].tag = "manual_http_error"
        /\ IsChat(n) /\ ImageFailed(n)
        /\ image_calls[n][1].outcome.kind = "Timeout"
        /\ sent[n][Len(sent[n])].tag = "image_error"

\* The turn belongs to the session of message m: it was made for a message of
\* that session, or (ids below 1) in the earlier dialogue of the direct
\* conversation.
OfSessionOf(turn, m) ==
    IF turn.msg \in DOMAIN inbox THEN SameSession(turn.msg, m)
    ELSE turn.msg < 0 /\ inbox[m].channel.is_dm

\* In every state: each message list given to the language model is the
\* system instruction, then at most 50 turns, all of the session of the
\* message handled, the last of them the user turn of that message.
ModelGivenSessionTurns ==
    \A m \in DOMAIN inbox :
        \A c \in DOMAIN llm_calls[m] :
            LET messages == llm_calls[m][c]
            IN  /\ Len(messages) \in 2..51
                /\ messages[1] = [role |-> "system", content |-> PyStr(SYSTEM_PROMPT),
                                  msg |-> 0]
                /\ messages[Len(messages)] = UserTurn(m)
                /\ \A j \in 2..Len(messages) :
                       /\ messages[j].role \in {"user", "assistant"}
                       /\ OfSessionOf(messages[j], m)

\* In every step that calls the language model: the turns given are the most
\* recent turns of the history of the session with the new user turn at its
\* end: all of them, or the last 50.
ModelGivenLatestTurns ==
    LET m == Len(inbox')
        message == inbox'[m]
        old == Append(HistoryOf(conversation_history, get_session_key(message)),
                      [role |-> "user", content |-> PyStr(ROUTE_OF[message].content),
                       msg |-> m])
        given == Tail(llm_calls'[m][1])
    IN  (m = Len(inbox) + 1 /\ llm_calls'[m] # <<>>) =>
            /\ Len(llm_calls'[m]) = 1
            /\ Len(given) = Min(50, Len(old))
            /\ \A j \in DOMAIN given : given[j] = old[Len(old) - Len(given) + j]

\* C19: every message list passed to the language model is the fixed system
\* instruction followed by at most 50 turns of the session, the last of which
\* is the user turn of the message being handled.
ModelGivenSystemAndHistory ==
    []ModelGivenSessionTurns /\ [][ModelGivenLatestTurns]_vars

\* C19, its case: the model was given the system instruction and exactly 50
\* turns, cut from a history that held 51 turns before the user turn.
ModelGivenFiftyTurns ==
    \E m \in DOMAIN inbox :
        /\ llm_calls[m] # <<>>
        /\ Len(llm_calls[m][1]) = 51
        /\ llm_calls[m][1][2].role = "assistant"
        /\ llm_calls[m][1][2].msg = 1 - (MAX_HISTORY_MESSAGES \div 2)
        /\ llm_calls[m][1][51] = UserTurn(m)

\* In every state, in the history of every session: an assistant turn that is
\* not the first entry comes right after the user turn of the same message;
\* the user turn of a message whose deepseek_chat has returned is followed at
\* once by the assistant turn of that message (a user turn with nothing of its
\* message behind it is that of a call that failed, and stays so).
TurnsInPairs ==
    \A k \in DOMAIN conversation_history :
        LET history == conversation_history[k]
        IN  \A i \in DOMAIN history :
                /\ (history[i].role = "assistant" /\ i > 1) =>
                       /\ history[i - 1].role = "user"
                       /\ history[i - 1].msg = history[i].msg
                /\ (history[i].role = "user" /\ history[i].msg \in DOMAIN inbox
                        /\ result[history[i].msg].exc = "") =>
                       /\ i < Len(history)
                       /\ history[i + 1].role = "assistant"
                       /\ history[i + 1].msg = history[i].msg

\* A turn of this role for message n is in some history of ch.
HasTurn(ch, role, n) ==
    \E k \in DOMAIN ch : \E i \in DOMAIN ch[k] : ch[k][i].role = role /\ ch[k][i].msg = n

\* In every step: an assistant turn is appended in the step that appends the
\* user turn of its message, so no step of any handler comes between the two.
TurnsAppendedTogether ==
    \A n \in DOMAIN inbox' :
        (HasTurn(conversation_history', "assistant", n)
             /\ ~HasTurn(conversation_history, "assistant", n))
            => ~HasTurn(conversation_history, "user", n)

\* C20: the update of the history is atomic: no handler takes a step between
\* the append of the user turn of a message and the append of its assistant
\* turn; every assistant turn that is not the first entry comes right after
\* the user turn of the same message; the turns of concurrent messages of one
\* session never interleave.
HistoryUpdateAtomic ==
    []TurnsInPairs /\ [][TurnsAppendedTogether]_vars

\* C20, its case: two messages of one session, the handler of the first still
\* at work when the second was handled; the history ends with the user and
\* assistant turn of the first, then those of the second.
ConcurrentTurnsInPairs ==
    \E a \in DOMAIN inbox, b \in DOMAIN inbox :
        /\ a < b /\ IsChat(a) /\ IsChat(b) /\ SameSession(a, b)
        /\ pc[a] # Done
        /\ LET history == HistoryOf(conversation_history, get_session_key(inbox[a]))
               n == Len(history)
           IN  /\ n >= 4
               /\ history[n - 3].role = "user" /\ history[n - 3].msg = a
               /\ history[n - 2].role = "assistant" /\ history[n - 2].msg = a
               /\ history[n - 1].role = "user" /\ history[n - 1].msg = b
               /\ history[n].role = "assistant" /\ history[n].msg = b

===========================================================================
